---- MODULE Spec2Model ----
(***************************************************************************)
(* jetscii: searching a string for a small set of ASCII bytes with the     *)
(* PCMPESTRI / PCMPESTRM instructions (src/src/lib.rs).                    *)
(*                                                                         *)
(* Memory is a sequence of bytes laid out from a 16-byte-aligned address:  *)
(* mem[a + 1] is the byte at address a, address 0 is aligned.  The         *)
(* haystack is the hlen bytes from address lead on; the bytes of mem       *)
(* outside it are whatever else lives in the same aligned blocks.          *)
(* A u64 is kept as its 8 byte lanes, lane 1 the least significant.        *)
(***************************************************************************)
EXTENDS Integers, Sequences, FiniteSets, TLC

VARIABLES
    self,       \* the AsciiChars value: [needle |-> 8 lanes, count |-> u8]
    fallback,   \* the bytes the fallback predicate of with_fallback accepts
    status,     \* the last push: <<"new">>, <<"ok", byte>>, <<"panic", byte>>
    mem,        \* the aligned blocks that hold the haystack
    lead,       \* address of the haystack's first byte (true_ptr), 0..15
    hlen,       \* haystack.len()
    unstable,   \* cfg(all(feature = "unstable", target_arch = "x86_64"))
    pc,         \* "ready" before find is called, "returned" after
    result,     \* what find returned: <<>> is None, <<i>> is Some(i)
    reads,      \* addresses at which find read a 16-byte block
    first,      \* <<"was", r>>: what an earlier call of find returned
    pushed,     \* the bytes push has stored, in the order they were pushed
    offset,     \* AsciiCharsSearcher.offset
    step,       \* the SearchStep the last next() returned
    spans       \* every SearchStep returned so far, in order

vars == <<self, fallback, status, mem, lead, hlen, unstable, pc, result, reads,
          first, pushed, offset, step, spans>>

----------------------------------------------------------------------------
(* Bounds and constants *)

BlockSize == 16          \* bytes read by one PCMPxSTRx
Lanes == 8               \* byte lanes of the u64 needle
AsciiLimit == 128        \* push asserts byte < 128
MaxLen == 18             \* longest haystack of the find runs
CursorMaxLen == 5        \* longest enumerated haystack of the cursor runs
MaxDone == 2             \* calls of next() followed after the first Done
FairMaxLen == 3          \* longest enumerated haystack of the fair cursor runs

None == <<>>
Some(i) == <<i>>

Min(a, b) == IF a < b THEN a ELSE b

RECURSIVE Pow2(_)
Pow2(k) == IF k = 0 THEN 1 ELSE 2 * Pow2(k - 1)

----------------------------------------------------------------------------
(* AsciiChars *)

ZeroLanes == [i \in 1..Lanes |-> 0]

\* AsciiChars::new
new == [needle |-> ZeroLanes, count |-> 0]

\* self.needle <<= 8; self.needle |= byte as u64  (the top lane is shifted out)
ShiftIn(needle, byte) ==
    [i \in 1..Lanes |-> IF i = 1 THEN byte ELSE needle[i - 1]]

\* push without the assertion on count
PushAccepts_any_count(s, byte) == byte < AsciiLimit

\* the two assertions of push, in the order the code makes them
PushAccepts(s, byte) == byte < AsciiLimit /\ s.count < Lanes

\* a push that stores the byte in the lowest lane not yet used
Pushed_low_first(s, byte) ==
    [needle |-> [s.needle EXCEPT ![s.count + 1] = byte], count |-> s.count + 1]

\* the value of *self after push(byte) returns
Pushed(s, byte) == [needle |-> ShiftIn(s.needle, byte), count |-> s.count + 1]

\* a comparison that takes all 8 lanes of the needle as valid
InNeedle_all_lanes(s, b) == \E i \in 1..Lanes : s.needle[i] = b

\* the set a needle stands for: PCMPESTRx takes rax = count as the explicit
\* length of the needle operand, so only the low `count` lanes are compared
InNeedle(s, b) == \E i \in 1..Min(s.count, Lanes) : s.needle[i] = b

\* {:016x} of a u64: its 16 hexadecimal digits, the most significant first
HexDigits(needle) ==
    [d \in 1..(2 * Lanes) |->
        LET lane == needle[Lanes - ((d - 1) \div 2)]
        IN IF d % 2 = 1 THEN lane \div 16 ELSE lane % 16]

\* {} of a u8: its decimal digits, the most significant first
RECURSIVE DecDigits(_)
DecDigits(n) ==
    IF n < 10 THEN <<n>> ELSE Append(DecDigits(n \div 10), n % 10)

\* what the Debug implementation writes: the digits of needle and of count
debug_fmt(s) == [needle |-> HexDigits(s.needle), count |-> DecDigits(s.count)]

\* the u64 a literal of 16 hexadecimal digits denotes
FromHex(digits) ==
    [i \in 1..Lanes |->
        16 * digits[2 * (Lanes - i) + 1] + digits[2 * (Lanes - i) + 2]]

\* the u8 a decimal literal denotes
RECURSIVE FromDec(_)
FromDec(digits) ==
    IF digits = <<>> THEN 0
    ELSE 10 * FromDec(SubSeq(digits, 1, Len(digits) - 1)) + digits[Len(digits)]

\* the constant item AsciiChars { needle: 0x..., count: ... } written from
\* the Debug output
from_debug(text) == [needle |-> FromHex(text.needle), count |-> FromDec(text.count)]

----------------------------------------------------------------------------
(* Memory *)

\* what a read outside the mapped blocks yields: a value no byte has
Unmapped == 2 * AsciiLimit

MemByte(a) == IF a + 1 \in DOMAIN mem THEN mem[a + 1] ELSE Unmapped

\* haystack.as_bytes()[i] of the slice that starts at address start
HayByte(start, i) == MemByte(start + i)

\* a search that starts at the string's own first byte, whatever its alignment
AlignDown_none(a) == a

\* true_ptr as usize & !0xF
AlignDown(a) == a - (a % BlockSize)

----------------------------------------------------------------------------
(* The two instructions *)

\* pcmpestrm $0 with rdx = 16: bit j of the mask is set iff byte j of the
\* block at ptr equals some valid needle lane
RECURSIVE MaskBits(_, _, _)
MaskBits(s, ptr, j) ==
    IF j = BlockSize THEN 0
    ELSE (IF InNeedle(s, MemByte(ptr + j)) THEN Pow2(j) ELSE 0)
         + MaskBits(s, ptr, j + 1)

pcmpestrm(s, ptr) == MaskBits(s, ptr, 0)

\* pcmpestri $0 with rdx = len: index of the first of the min(len, 16) valid
\* bytes at addr that equals some valid needle lane, 16 when there is none
pcmpestri(s, addr, len) ==
    LET valid == Min(len, BlockSize)
        hits  == {j \in 0..(valid - 1) : InNeedle(s, MemByte(addr + j))}
    IN IF hits = {} THEN BlockSize
       ELSE CHOOSE j \in hits : \A k \in hits : j <= k

RECURSIVE trailing_zeros(_)
trailing_zeros(m) == IF m % 2 = 1 THEN 0 ELSE 1 + trailing_zeros(m \div 2)

\* len.saturating_sub(16)
saturating_sub(a, b) == IF a < b THEN 0 ELSE a - b

----------------------------------------------------------------------------
(* AsciiChars::find *)

Complete(r) == [tag |-> "Complete", result |-> r, length |-> 0]
Incomplete(n) == [tag |-> "Incomplete", result |-> None, length |-> n]

\* the mask taken as it is, bits of the bytes before the string included
ShiftedMask_unshifted(s, ptr, off) == pcmpestrm(s, ptr)

\* matching_bytes >> offset
ShiftedMask(s, ptr, off) == pcmpestrm(s, ptr) \div Pow2(off)

\* the test that rejects a match that is not within our own string
PastEnd(index, len) == index > len

search_initial_unaligned_string(s, ptr, off, len) ==
    LET matching_bytes == ShiftedMask(s, ptr, off)
        length_of_leading_str == BlockSize - off
    IN IF matching_bytes # 0
       THEN LET index == trailing_zeros(matching_bytes)
            IN IF PastEnd(index, len) THEN Complete(None)
               ELSE Complete(Some(index))
       ELSE IF len < length_of_leading_str THEN Complete(None)
            ELSE Incomplete(length_of_leading_str)

\* the address the main loop reads for a given offset
BlockAddr(ptr, off) == ptr + off

\* while len != 0 { ... }: the result and the block addresses read
RECURSIVE main_loop(_, _, _, _, _)
main_loop(s, ptr, initial_offset, off, len) ==
    IF len = 0 THEN [result |-> None, reads |-> {}]
    ELSE LET res == pcmpestri(s, BlockAddr(ptr, off), len)
         IN IF res = BlockSize
            THEN LET rest == main_loop(s, ptr, initial_offset,
                                       off + BlockSize,
                                       saturating_sub(len, BlockSize))
                 IN [result |-> rest.result,
                     reads |-> {BlockAddr(ptr, off)} \cup rest.reads]
            ELSE [result |-> Some(res + off - initial_offset),
                  reads |-> {BlockAddr(ptr, off)}]

\* find once the haystack is known not to be empty
find_nonempty(s, true_ptr, len) ==
    LET ptr == AlignDown(true_ptr)
        initial_offset == true_ptr % BlockSize
    IN IF initial_offset # 0
       THEN LET im == search_initial_unaligned_string(
                          s, ptr, initial_offset, len)
            IN IF im.tag = "Complete"
               THEN [result |-> im.result, reads |-> {ptr}]
               ELSE LET r == main_loop(s, ptr, initial_offset,
                                       BlockSize, len - im.length)
                    IN [result |-> r.result, reads |-> {ptr} \cup r.reads]
       ELSE main_loop(s, ptr, initial_offset, initial_offset, len)

\* find without the early return for the empty haystack
find_unguarded(s, true_ptr, len) == find_nonempty(s, true_ptr, len)

\* find on the slice of len bytes whose first byte is at address true_ptr
find(s, true_ptr, len) ==
    IF len = 0 THEN [result |-> None, reads |-> {}]
    ELSE find_nonempty(s, true_ptr, len)

\* haystack.as_bytes().iter().cloned().position(pred), pred given as the
\* set of bytes it accepts
position(pred, start, len) ==
    LET hits == {i \in 0..(len - 1) : HayByte(start, i) \in pred}
    IN IF hits = {} THEN None
       ELSE Some(CHOOSE i \in hits : \A k \in hits : i <= k)

----------------------------------------------------------------------------
(* AsciiCharsSearcher *)

Match(a, b) == <<"Match", a, b>>
Reject(a, b) == <<"Reject", a, b>>
Done == <<"Done">>

\* the two cfg variants of next_idx, on the slice haystack[off..]
next_idx(off) ==
    IF unstable THEN find(self, lead + off, hlen - off).result
    ELSE position(fallback, lead + off, hlen - off)

\* Done only once the offset has passed the end
AtEnd_past(off, len) == off > len

\* if self.offset >= self.haystack.len() { return SearchStep::Done }
AtEnd(off, len) == off >= len

\* idx.unwrap_or(self.haystack.len())
unwrap_or_len(idx) == IF idx = None THEN hlen ELSE idx[1]

\* a step whose Reject ends at the index found, not at offset + index
StepFrom_relative(off) ==
    LET idx == unwrap_or_len(next_idx(off))
    IN IF idx = 0 THEN Match(off, off + 1) ELSE Reject(off, idx)

\* the SearchStep of a call of next() that starts at offset off
StepFrom(off) ==
    LET idx == unwrap_or_len(next_idx(off))
    IN IF idx = 0 THEN Match(off, off + 1) ELSE Reject(off, off + idx)

DoneCount == Cardinality({i \in DOMAIN spans : spans[i] = Done})

\* Searcher::next
next ==
    /\ pc = "cursor"
    /\ DoneCount < MaxDone
    /\ LET res == IF AtEnd(offset, hlen) THEN Done ELSE StepFrom(offset)
       IN /\ step' = res
          /\ spans' = Append(spans, res)
          /\ offset' = IF res = Done THEN offset ELSE res[3]
    /\ UNCHANGED <<self, fallback, status, mem, lead, hlen, unstable, pc,
                   result, reads, first, pushed>>

----------------------------------------------------------------------------
(* Inputs *)

RECURSIVE Build(_)
\* the AsciiChars obtained from new() by pushing the bytes of a sequence
Build(bytes) ==
    IF bytes = <<>> THEN new
    ELSE Pushed(Build(SubSeq(bytes, 1, Len(bytes) - 1)), bytes[Len(bytes)])

Range(f) == {f[i] : i \in DOMAIN f}

\* needle sets with the byte that fills memory and the byte that marks it;
\* two marks are placed where `pairs` says so, one otherwise
Scenarios ==
    { [bytes |-> <<32>>,     fill |-> 48, mark |-> 32, pairs |-> TRUE],
      [bytes |-> <<97>>,     fill |-> 0,  mark |-> 97, pairs |-> FALSE],
      [bytes |-> <<45, 58>>, fill |-> 74, mark |-> 45, pairs |-> FALSE],
      [bytes |-> <<97, 98, 99, 100, 101, 102, 103, 104>>,
                             fill |-> 48, mark |-> 97, pairs |-> FALSE],
      [bytes |-> <<0>>,      fill |-> 97, mark |-> 0,  pairs |-> FALSE],
      [bytes |-> <<>>,       fill |-> 0,  mark |-> 32, pairs |-> FALSE] }

\* the aligned blocks that hold a slice of n bytes starting at address l
MemSize(l, n) ==
    IF n = 0 THEN BlockSize
    ELSE BlockSize * (((l + n - 1) \div BlockSize) + 1)

\* no marked address, one, or (with pairs) two
MarkSets(size, pairs) ==
    {{}} \cup {{p} : p \in 0..(size - 1)}
         \cup (IF pairs
               THEN {{p, q} : p \in 0..(size - 1), q \in 0..(size - 1)}
               ELSE {})

MemOf(size, fill, mark, marks) ==
    [a \in 1..size |-> IF (a - 1) \in marks THEN mark ELSE fill]

\* memory that holds the given bytes from address l on, `around` elsewhere
MemAround(l, bytes, around) ==
    [a \in 1..MemSize(l, Len(bytes)) |->
        IF a - 1 >= l /\ a - 1 < l + Len(bytes) THEN bytes[a - l]
        ELSE around]

CursorIdle ==
    /\ offset = 0
    /\ step = <<"None">>
    /\ spans = <<>>

FindIdle ==
    /\ result = None
    /\ reads = {}
    /\ first = <<"none">>
    /\ pushed = <<>>

\* a needle, a haystack of up to MaxLen bytes at every alignment, and every
\* placing of up to two needle bytes in the blocks that hold it
Init ==
    /\ \E sc \in Scenarios, l \in 0..(BlockSize - 1), n \in 0..MaxLen :
         /\ self = Build(sc.bytes)
         /\ fallback = Range(sc.bytes)
         /\ lead = l
         /\ hlen = n
         /\ \E marks \in MarkSets(MemSize(l, n), sc.pairs) :
              mem = MemOf(MemSize(l, n), sc.fill, sc.mark, marks)
    /\ status = <<"new">>
    /\ unstable = TRUE
    /\ pc = "ready"
    /\ FindIdle
    /\ CursorIdle

\* a call of AsciiChars::find on the haystack
Find ==
    /\ pc = "ready"
    /\ unstable
    /\ LET r == find(self, lead, hlen)
       IN /\ result' = r.result
          /\ reads' = r.reads
    /\ pc' = "returned"
    /\ UNCHANGED <<self, fallback, status, mem, lead, hlen, unstable,
                   first, pushed, offset, step, spans>>

Next == Find

Spec == Init /\ [][Next]_vars

----------------------------------------------------------------------------
(* Two calls of find on the same haystack *)

LeadScenarios == {sc \in Scenarios : Len(sc.bytes) = 1}

\* an unaligned haystack with at most one needle byte in it, after it or
\* right before it
InitLead ==
    /\ \E sc \in LeadScenarios, l \in 1..(BlockSize - 1), n \in 0..MaxLen :
         /\ self = Build(sc.bytes)
         /\ fallback = Range(sc.bytes)
         /\ lead = l
         /\ hlen = n
         /\ \E marks \in {{}} \cup {{p} : p \in (l - 1)..(MemSize(l, n) - 1)} :
              mem = MemOf(MemSize(l, n), sc.fill, sc.mark, marks)
    /\ status = <<"new">>
    /\ unstable = TRUE
    /\ pc = "ready"
    /\ FindIdle
    /\ CursorIdle

\* the addresses of the lead block that another value may write between the
\* two calls: all those before the haystack, the first or the last of them
PreRegions(l) == {0..(l - 1), {0}, {l - 1}}

\* the bytes of the lead block before the haystack's first byte change
Overwrite ==
    /\ pc = "returned"
    /\ first = <<"none">>
    /\ lead % BlockSize # 0
    /\ \E region \in PreRegions(lead), b \in fallback \cup {0, 48, 97} :
         mem' = [a \in DOMAIN mem |-> IF (a - 1) \in region THEN b ELSE mem[a]]
    /\ first' = <<"was", result>>
    /\ pc' = "ready"
    /\ result' = None
    /\ reads' = {}
    /\ UNCHANGED <<self, fallback, status, lead, hlen, unstable, pushed,
                   offset, step, spans>>

NextLead == Find \/ Overwrite

SpecLead == InitLead /\ [][NextLead]_vars

\* "86-J52:rev1" split on '-' and ':', and "hello w " searched for ' '
Examples ==
    { [bytes |-> <<45, 58>>,
       hay |-> <<56, 54, 45, 74, 53, 50, 58, 114, 101, 118, 49>>],
      [bytes |-> <<32>>,
       hay |-> <<104, 101, 108, 108, 111, 32, 119, 32>>] }

CursorScenarios == {sc \in Scenarios : Len(sc.bytes) \in 1..2}

\* into_searcher on every haystack of up to CursorMaxLen filler and needle
\* bytes, the byte before it and the byte after it being either, and on the
\* examples, at every alignment and for both builds of next_idx
InitCursor ==
    /\ \E l \in 0..(BlockSize - 1) :
         /\ lead = l
         /\ \/ \E sc \in CursorScenarios, n \in 0..CursorMaxLen :
                 /\ self = Build(sc.bytes)
                 /\ fallback = Range(sc.bytes)
                 /\ hlen = n
                 /\ \E marks \in SUBSET ((l - 1)..(l + n)) :
                      mem = MemOf(MemSize(l, n), sc.fill, sc.mark, marks)
            \/ \E ex \in Examples :
                 /\ self = Build(ex.bytes)
                 /\ fallback = Range(ex.bytes)
                 /\ hlen = Len(ex.hay)
                 /\ \E around \in {48, ex.bytes[1]} :
                      mem = MemAround(l, ex.hay, around)
    /\ unstable \in BOOLEAN
    /\ status = <<"new">>
    /\ pc = "cursor"
    /\ FindIdle
    /\ CursorIdle

SpecCursor == InitCursor /\ [][next]_vars

\* the searchers of InitCursor over the examples and over the haystacks of
\* up to FairMaxLen bytes searched for a space
InitFair ==
    /\ InitCursor
    /\ hlen <= FairMaxLen \/ hlen > CursorMaxLen
    /\ fallback = {32} \/ hlen > CursorMaxLen

\* the caller keeps calling next() until it has seen Done
SpecCursorFair == InitFair /\ [][next]_vars /\ WF_vars(next)

----------------------------------------------------------------------------
(* Building a needle *)

PushBytes == {45, 58, 127, 128, 255}

InitPush ==
    /\ self = new
    /\ fallback = {}
    /\ status = <<"new">>
    /\ mem = <<>>
    /\ lead = 0
    /\ hlen = 0
    /\ unstable = TRUE
    /\ pc = "push"
    /\ FindIdle
    /\ CursorIdle

\* AsciiChars::push: an assertion that fails panics before anything is stored
push(byte) ==
    /\ pc = "push"
    /\ IF PushAccepts(self, byte)
       THEN /\ self' = Pushed(self, byte)
            /\ status' = <<"ok", byte>>
            /\ pushed' = Append(pushed, byte)
       ELSE /\ self' = self
            /\ status' = <<"panic", byte>>
            /\ pushed' = pushed
    /\ UNCHANGED <<fallback, mem, lead, hlen, unstable, pc, result, reads,
                   first, offset, step, spans>>

NextPush == \E byte \in PushBytes : push(byte)

SpecPush == InitPush /\ [][NextPush]_vars

----------------------------------------------------------------------------
(* Properties of find *)

Returned == pc = "returned"

\* the left-to-right scalar scan of the haystack with "byte is in the set"
Scalar == position(fallback, lead, hlen)

\* the bit index the lead-block branch takes from the shifted mask
LeadMask == ShiftedMask(self, AlignDown(lead), lead % BlockSize)
LeadBranch == Returned /\ hlen > 0 /\ lead % BlockSize # 0 /\ LeadMask # 0

\* C1: for every needle set of 1 to 8 bytes, every haystack, every start
\* alignment and every content of the surrounding memory, find returns what
\* the scalar scan returns.
C1_FindEqualsScalar ==
    (Returned /\ self.count \in 1..Lanes) => result = Scalar

\* C2: when find returns Some(i), i is an index of the haystack, haystack[i]
\* is a needle byte and no earlier byte of the haystack is one.
C2_FirstOccurrence ==
    (Returned /\ result # None) =>
        LET i == result[1]
        IN /\ i < hlen
           /\ HayByte(lead, i) \in fallback
           /\ \A j \in 0..(i - 1) : HayByte(lead, j) \notin fallback

\* C3: every block find reads on a non-empty haystack starts at an aligned
\* address and holds at least one byte of the haystack, so no block lying
\* wholly after the haystack's last byte is read.
C3_PageSafety ==
    (Returned /\ hlen > 0) =>
        /\ reads # {}
        /\ \A b \in reads :
             /\ b % BlockSize = 0
             /\ b + BlockSize > lead
             /\ b < lead + hlen

\* a haystack that starts unaligned and ends exactly at a block boundary,
\* searched to its end over two blocks
C3_Witness ==
    /\ Returned
    /\ lead % BlockSize # 0
    /\ hlen > BlockSize
    /\ (lead + hlen) % BlockSize = 0
    /\ result = None
    /\ reads = {0, BlockSize}

\* C8: on a haystack of length 0, whatever the needle set and the
\* alignment, find returns None and reads no block.
C8_EmptyHaystack ==
    (Returned /\ hlen = 0) => (result = None /\ reads = {})

\* an empty haystack at an unaligned address where a needle byte lies
C8_Witness ==
    /\ Returned
    /\ hlen = 0
    /\ lead % BlockSize # 0
    /\ self.count > 0
    /\ MemByte(lead) \in fallback
    /\ result = None

\* C9: in the lead-block branch with a nonzero shifted mask whose lowest set
\* bit is k, find returns Some(k) when k < len(haystack) and None for every
\* k at or past the haystack's end, k = len(haystack) included.
C9_LeadBranchResult ==
    LeadBranch =>
        LET k == trailing_zeros(LeadMask)
        IN result = (IF k < hlen THEN Some(k) ELSE None)

----------------------------------------------------------------------------
(* Properties of the searcher *)

\* the spans yielded before Done, in order
RECURSIVE Yielded(_)
Yielded(sp) ==
    IF sp = <<>> THEN <<>>
    ELSE IF sp[1] = Done THEN Yielded(Tail(sp))
         ELSE <<sp[1]>> \o Yielded(Tail(sp))

\* the Match spans among them, as pairs
RECURSIVE Matches(_)
Matches(sp) ==
    IF sp = <<>> THEN <<>>
    ELSE IF sp[1][1] = "Match" THEN <<<<sp[1][2], sp[1][3]>>>> \o Matches(Tail(sp))
         ELSE Matches(Tail(sp))

\* <<i, i + 1>> for every index i in from..(to - 1) of the haystack that
\* holds a needle byte, in increasing order
RECURSIVE NeedleSpans(_, _)
NeedleSpans(from, to) ==
    IF from >= to THEN <<>>
    ELSE (IF HayByte(lead, from) \in fallback THEN <<<<from, from + 1>>>> ELSE <<>>)
         \o NeedleSpans(from + 1, to)

\* the pieces str::split cuts the haystack into at the given matches
RECURSIVE Pieces(_, _)
Pieces(from, ms) ==
    IF ms = <<>> THEN <<[i \in 1..(hlen - from) |-> HayByte(lead, from + i - 1)]>>
    ELSE <<[i \in 1..(ms[1][1] - from) |-> HayByte(lead, from + i - 1)]>>
         \o Pieces(ms[1][2], Tail(ms))

NoNeedleFrom(off) == \A i \in off..(hlen - 1) : HayByte(lead, i) \notin fallback

\* C4: the Match and Reject spans yielded up to Done are contiguous, start
\* at 0, never end past len(haystack) and end at len(haystack) once Done is
\* yielded; every Match has length 1 and lies on a needle byte.
C4_Partition ==
    LET y == Yielded(spans)
    IN /\ \A i \in DOMAIN y :
            /\ y[i][2] = (IF i = 1 THEN 0 ELSE y[i - 1][3])
            /\ y[i][2] < y[i][3]
            /\ y[i][3] <= hlen
            /\ y[i][1] = "Match" =>
                 (y[i][3] = y[i][2] + 1 /\ HayByte(lead, y[i][2]) \in fallback)
       /\ step = Done => (IF y = <<>> THEN hlen = 0 ELSE y[Len(y)][3] = hlen)

\* C5: the Match spans yielded so far are the spans (i, i + 1) of the needle
\* bytes of the haystack before the offset, once each and in increasing
\* order, so that at Done they are those of the whole haystack.
C5_MatchesAreNeedleBytes ==
    pc = "cursor" =>
        Matches(Yielded(spans)) = NeedleSpans(0, Min(offset, hlen))

\* "86-J52:rev1" split into "86", "J52", "rev1" by the accelerated build
C5_Witness ==
    /\ pc = "cursor"
    /\ unstable
    /\ step = Done
    /\ Matches(Yielded(spans)) = << <<2, 3>>, <<6, 7>> >>
    /\ Pieces(0, Matches(Yielded(spans)))
         = << <<56, 54>>, <<74, 53, 50>>, <<114, 101, 118, 49>> >>

\* C7: next() yields Done exactly when offset >= len(haystack) at the start
\* of the call, and a call made after Done was yielded yields Done again
\* and leaves the offset, the haystack and the needle as they were.
C7_DoneIsTerminal ==
    [][ /\ (step' = Done) <=> (offset >= hlen)
        /\ step = Done =>
             (step' = Done /\ offset' = offset
                /\ <<mem, lead, hlen, self, fallback>>' = <<mem, lead, hlen, self, fallback>>)
      ]_vars

\* Done yielded twice after a haystack was scanned to its end
C7_Witness ==
    /\ pc = "cursor"
    /\ hlen > 0
    /\ Len(spans) >= 3
    /\ spans[Len(spans)] = Done
    /\ spans[Len(spans) - 1] = Done
    /\ spans[Len(spans) - 2] # Done

\* C10: a call of next() at an offset < len(haystack) from which the
\* haystack holds no needle byte yields Reject(offset, len(haystack)) and
\* sets offset to len(haystack), whatever the offset.
C10_NoMatchStep ==
    [][ (pc = "cursor" /\ offset < hlen /\ NoNeedleFrom(offset)) =>
            (step' = Reject(offset, hlen) /\ offset' = hlen) ]_vars

\* C13: every call of next() that yields Match or Reject raises the offset
\* by at least 1; a fresh searcher over a haystack of n bytes yields at most
\* n spans other than Done, and Done is eventually yielded.
C13_ProgressAndTermination ==
    /\ [][step' # Done => offset' >= offset + 1]_vars
    /\ [](pc = "cursor" => Len(Yielded(spans)) <= hlen)
    /\ <>(step = Done)

\* Done reached after as many spans as the haystack has bytes
C13_Witness ==
    /\ pc = "cursor"
    /\ step = Done
    /\ hlen >= 3
    /\ Len(Yielded(spans)) = hlen

----------------------------------------------------------------------------
(* Properties of push *)

\* C6: push on a set that holds 8 bytes, or of a byte >= 128, panics and
\* leaves needle and count as they were; a set built from new() by pushes
\* holds at most 8 bytes, each < 128.
C6_Construction ==
    /\ [](pc = "push" =>
            /\ self.count <= Lanes
            /\ \A i \in 1..Lanes : self.needle[i] < AsciiLimit)
    /\ [][ /\ (status'[1] = "panic") <=>
                (status'[2] >= AsciiLimit \/ self.count >= Lanes)
           /\ status'[1] = "panic" => self' = self
           /\ status'[1] = "ok" =>
                (self'.count = self.count + 1 /\ self'.needle[1] = status'[2])
         ]_vars

\* C12: after pushing b1..bn onto new(), count = n and needle is the sum of
\* b_i * 256^(n - i): lane j (the lowest is lane 1) holds b_(n-j+1) for
\* j <= n and 0 above, no pushed byte being shifted out; the constant
\* written from the Debug output is an equal value.
C12_NeedleEncoding ==
    pc = "push" =>
        LET n == Len(pushed)
        IN /\ self.count = n
           /\ \A j \in 1..Lanes :
                self.needle[j] = (IF j <= n THEN pushed[n - j + 1] ELSE 0)
           /\ from_debug(debug_fmt(self)) = self

\* push('-') then push(':') gives needle 0x0000000000002d3a, count 2
C12_Witness ==
    /\ pc = "push"
    /\ pushed = <<45, 58>>
    /\ debug_fmt(self).needle = <<0, 0, 0, 0, 0, 0, 0, 0, 0, 0, 0, 0, 2, 13, 3, 10>>
    /\ debug_fmt(self).count = <<2>>

\* a ninth byte, itself ASCII, was refused
C6_Witness ==
    /\ pc = "push"
    /\ status[1] = "panic"
    /\ status[2] < AsciiLimit
    /\ self.count = Lanes

----------------------------------------------------------------------------
(* Properties of the lead block *)

\* C11: two calls of find with the same needle set, the same haystack bytes
\* and the same lead offset 1..15, between which only the bytes of the lead
\* block before the haystack's first byte changed, return the same result.
C11_BytesBeforeIgnored ==
    (Returned /\ first # <<"none">>) => result = first[2]

\* the second call found the needle byte at index k > 0 of the haystack
\* although a needle byte lies right before the haystack's first byte
C11_Witness ==
    /\ Returned
    /\ first # <<"none">>
    /\ MemByte(lead - 1) \in fallback
    /\ result # None
    /\ result[1] > 0
    /\ result[1] < hlen
    /\ result = first[2]

====
